---------------------------- MODULE Spec2Model ----------------------------
(***************************************************************************)
(* MagickTiler: tile pyramid generation (Zoomify, Google Maps, TMS), the   *)
(* stripe helper, the pyramid geometry and the tileset validators.         *)
(*                                                                         *)
(* Spec        the tilers' conversions and the validators                  *)
(* SpecStripe  the Stripe operations (merge, shrink) on their own          *)
(***************************************************************************)
EXTENDS Integers, Sequences, FiniteSets, TLC

(***************************************************************************)
(* Bounds of the model.                                                    *)
(***************************************************************************)
MaxStripeDim == 3
MaxExtent == 4
MaxDim == 4
MaxTile == 3
MaxGroupDim == 14

(***************************************************************************)
(* Integer helpers.  Rust's f64 ceil of a quotient of two i32 values is    *)
(* the exact integer ceiling; i32 `/` on non-negative operands is \div.    *)
(***************************************************************************)
Max(a, b) == IF a >= b THEN a ELSE b

CeilDiv(a, b) == (a + b - 1) \div b

RECURSIVE CeilLog2From(_, _)
CeilLog2From(n, k) == IF 2^k >= n THEN k ELSE CeilLog2From(n, k + 1)

\* (n as f64).log2().ceil() for n >= 1
CeilLog2(n) == CeilLog2From(n, 0)

\* f64 -inf cast to i32 saturates at i32::MIN
I32Min == -(2^30) - 2^30

(***************************************************************************)
(* TileSetInfo geometry (tile_set_info.rs)                                 *)
(***************************************************************************)
\* zoom_levels without the base level (the `+ 1` dropped)
zoom_levels_off(info) ==
    LET max_dim == Max(info.width, info.height)
        max_tiles == CeilDiv(max_dim, info.tile_width)
    IN  IF max_tiles = 0 THEN I32Min + 1 ELSE CeilLog2(max_tiles)

zoom_levels(info) ==
    LET max_dim == Max(info.width, info.height)
        max_tiles == CeilDiv(max_dim, info.tile_width)
    IN  IF max_tiles = 0 THEN I32Min + 1 ELSE CeilLog2(max_tiles) + 1

number_of_x_tiles(info, zoom_level) ==
    CeilDiv(info.width, (2^zoom_level) * info.tile_width)

number_of_y_tiles(info, zoom_level) ==
    CeilDiv(info.height, (2^zoom_level) * info.tile_height)

RECURSIVE TilesUpTo(_, _)
TilesUpTo(info, z) ==
    IF z < 0 THEN 0
    ELSE TilesUpTo(info, z - 1)
         + number_of_x_tiles(info, z) * number_of_y_tiles(info, z)

total_number_of_tiles(info) == TilesUpTo(info, zoom_levels(info) - 1)

(***************************************************************************)
(* ImageProcessorImpl (image/image_processor_imp.rs)                       *)
(***************************************************************************)
\* the exit statuses of the command line tool
ExitCodes == {0, 1}

\* cmd.output().map(|_| ()).map_err(|e| e.into()): an error only when the
\* command could not be run; the exit status of the output is not looked at
run_command(spawned, exit) == IF spawned THEN "Ok" ELSE "Err"

\* ImageProcessorImpl::resize
resize(spawned, exit) == run_command(spawned, exit)

\* ImageProcessorImpl::crop
crop(spawned, exit) == run_command(spawned, exit)

\* whether a command that ran exited non-zero
NonZeroExit(spawned, exit) == spawned /\ exit # 0

(***************************************************************************)
(* Stripe (stripe.rs)                                                      *)
(***************************************************************************)
Orientation == {"Horizontal", "Vertical"}

NoneVal == "None"

\* a file is named by a triple; "null:" is the processor's empty image
NullFile == <<"null:", 0, 0>>

\* Option<&Stripe>::None
NoStripe == [file |-> NullFile, width |-> 0, height |-> 0, orientation |-> "None"]

StripeNew(file, width, height, orientation) ==
    [file |-> file, width |-> width, height |-> height,
     orientation |-> orientation]

\* the montage grid of a two-stripe merge
MontageGrid(orientation) ==
    IF orientation = "Horizontal" THEN <<1, 2>> ELSE <<2, 1>>

OkStripe(stripe, calls) == [kind |-> "Ok", stripe |-> stripe, calls |-> calls]

ErrResult(err, calls) == [kind |-> "Err", err |-> err, calls |-> calls]

\* One invocation of the image processor, as the stripe code issues it.
MontageCanvasCall(srcs, target, grid, w, h, bg, gravity) ==
    [op |-> "montage", srcs |-> srcs, target |-> target, grid |-> grid,
     w |-> w, h |-> h, bg |-> bg, gravity |-> gravity]

MontageRawCall(srcs, target, grid) ==
    [op |-> "montage_raw", srcs |-> srcs, target |-> target, grid |-> grid]

ConvertCall(src, target) ==
    [op |-> "convert", srcs |-> <<src>>, target |-> target]

\* merge_with_canvas without the orientation check
merge_with_canvas_unchecked(self, stripe, gravity, x_extent, y_extent, background_color, target_file, procOk) ==
    LET srcs == <<self.file, stripe.file>>
        grid == MontageGrid(self.orientation)
    IN  IF x_extent > -1 /\ y_extent > -1
        THEN LET w == x_extent \div 2
                 h == y_extent
                 calls == IF gravity # NoneVal /\ background_color # NoneVal
                          THEN <<MontageCanvasCall(srcs, target_file, grid, w, h, background_color, gravity)>>
                          ELSE <<>>
             IN  IF calls # <<>> /\ ~procOk
                 THEN ErrResult("Other", calls)
                 ELSE OkStripe(StripeNew(target_file, w, h, self.orientation), calls)
        ELSE LET w == IF self.orientation = "Horizontal"
                      THEN self.width \div 2
                      ELSE (self.width + stripe.width) \div 2
                 h == IF self.orientation = "Horizontal"
                      THEN (self.height + stripe.height) \div 4
                      ELSE self.height \div 2
                 calls == <<MontageRawCall(srcs, target_file, grid)>>
             IN  IF ~procOk
                 THEN ErrResult("Other", calls)
                 ELSE OkStripe(StripeNew(target_file, w, h, self.orientation), calls)

\* merge_with_canvas recording the stacked height halved once: (h1 + h2) / 2
merge_with_canvas_half(self, stripe, gravity, x_extent, y_extent, background_color, target_file, procOk) ==
    IF stripe.orientation # self.orientation
    THEN ErrResult("InvalidInput", <<>>)
    ELSE
      LET srcs == <<self.file, stripe.file>>
          grid == MontageGrid(self.orientation)
      IN  IF x_extent > -1 /\ y_extent > -1
          THEN LET w == x_extent \div 2
                   h == y_extent
                   calls == IF gravity # NoneVal /\ background_color # NoneVal
                            THEN <<MontageCanvasCall(srcs, target_file, grid, w, h, background_color, gravity)>>
                            ELSE <<>>
               IN  IF calls # <<>> /\ ~procOk
                   THEN ErrResult("Other", calls)
                   ELSE OkStripe(StripeNew(target_file, w, h, self.orientation), calls)
          ELSE LET w == IF self.orientation = "Horizontal"
                        THEN self.width \div 2
                        ELSE (self.width + stripe.width) \div 2
                   h == IF self.orientation = "Horizontal"
                        THEN (self.height + stripe.height) \div 2
                        ELSE self.height \div 2
                   calls == <<MontageRawCall(srcs, target_file, grid)>>
               IN  IF ~procOk
                   THEN ErrResult("Other", calls)
                   ELSE OkStripe(StripeNew(target_file, w, h, self.orientation), calls)

\* Stripe::merge_with_canvas.  procOk: whether the processor call (if one is
\* made) succeeds.
merge_with_canvas(self, stripe, gravity, x_extent, y_extent, background_color, target_file, procOk) ==
    IF stripe.orientation # self.orientation
    THEN ErrResult("InvalidInput", <<>>)
    ELSE
      LET srcs == <<self.file, stripe.file>>
          grid == MontageGrid(self.orientation)
      IN  IF x_extent > -1 /\ y_extent > -1
          THEN LET w == x_extent \div 2
                   h == y_extent
                   calls == IF gravity # NoneVal /\ background_color # NoneVal
                            THEN <<MontageCanvasCall(srcs, target_file, grid,
                                       w, h, background_color, gravity)>>
                            ELSE <<>>
               IN  IF calls # <<>> /\ ~procOk
                   THEN ErrResult("Other", calls)
                   ELSE OkStripe(StripeNew(target_file, w, h,
                                           self.orientation), calls)
          ELSE LET w == IF self.orientation = "Horizontal"
                        THEN self.width \div 2
                        ELSE (self.width + stripe.width) \div 2
                   h == IF self.orientation = "Horizontal"
                        THEN (self.height + stripe.height) \div 4
                        ELSE self.height \div 2
                   calls == <<MontageRawCall(srcs, target_file, grid)>>
               IN  IF ~procOk
                   THEN ErrResult("Other", calls)
                   ELSE OkStripe(StripeNew(target_file, w, h,
                                           self.orientation), calls)

\* Stripe::merge
merge(self, stripe, target_file, procOk) ==
    merge_with_canvas(self, stripe, NoneVal, -1, -1, NoneVal, target_file,
                      procOk)

\* Stripe::shrink_with_canvas
shrink_with_canvas(self, gravity, x_extent, y_extent, background_color, target_file, procOk) ==
    IF x_extent > -1 /\ y_extent > -1
    THEN LET srcs == <<self.file, NullFile>>
             grid == MontageGrid(self.orientation)
             calls == IF gravity # NoneVal /\ background_color # NoneVal
                      THEN <<MontageCanvasCall(srcs, target_file, grid,
                                 x_extent \div 2, y_extent,
                                 background_color, gravity)>>
                      ELSE <<>>
         IN  IF calls # <<>> /\ ~procOk
             THEN ErrResult("Other", calls)
             ELSE OkStripe(StripeNew(target_file, x_extent, y_extent,
                                     self.orientation), calls)
    ELSE LET calls == <<ConvertCall(self.file, target_file)>>
         IN  IF ~procOk
             THEN ErrResult("Other", calls)
             ELSE OkStripe(StripeNew(target_file, self.width \div 2,
                                     self.height \div 2, self.orientation),
                           calls)

\* Stripe::shrink
shrink(self, target_file, procOk) ==
    shrink_with_canvas(self, NoneVal, -1, -1, NoneVal, target_file, procOk)

(***************************************************************************)
(* State                                                                   *)
(***************************************************************************)
VARIABLES
    scheme,        \* the tiler: "Zoomify", "GoogleMaps" or "TMS"
    srcW, srcH,    \* the source image's pixel dimensions
    tileSize,      \* BaseMagickTiler.tile_width = tile_height (set_tile_size)
    format,        \* the processor's image format
    genPreview,    \* BaseMagickTiler.generate_preview
    entry,         \* how the conversion was started
    pc,            \* position of the running conversion
    info,          \* the TileSetInfo of the conversion
    lvl, idx,      \* loop counters i and j of convert_internal
    levelBeneath,  \* level_beneath
    thisLevel,     \* this_level
    startIdx,      \* zoomlevel_start_idx
    offset,        \* offset
    rootExists,    \* the tileset root directory exists
    tiles,         \* tile files in the tileset root
    stripeFiles,   \* stripe files in the working directory
    deleted,       \* stripe files Stripe::delete has removed
    cropped,       \* the image processor's crop was invoked
    exitFailed,    \* a command run by resize or crop exited non-zero
    procCalls,     \* the processor calls the stripes' merges and shrinks issued
    meta,          \* the metadata descriptor in the tileset root
    preview,       \* preview.html was written
    baseImage,     \* the Google Maps resize request (gmapbase)
    result,        \* what the conversion returned
    rerun,         \* this is the second conversion into the same directory
    snap,          \* the tileset as the first conversion left it
    vres,          \* what the validator returned
    vdir,          \* the tile files of the directory the validator was run on
    sSelf, sOther, \* Stripe operations: the two stripes
    sCall,         \* the Stripe operation invoked and its arguments
    sResult        \* its result

convVars == <<scheme, srcW, srcH, tileSize, format, genPreview, entry, pc, info, lvl, idx, levelBeneath, thisLevel, startIdx, offset, rootExists, tiles, stripeFiles, deleted, cropped, exitFailed, procCalls, meta, preview, baseImage, result, rerun, snap, vres, vdir>>

stripeVars == <<sSelf, sOther, sCall, sResult>>

vars == <<convVars, stripeVars>>

Schemes == {"Zoomify", "GoogleMaps", "TMS"}

Formats == {"JPEG", "PNG", "TIFF"}

Dims == 1..MaxDim

TileSizes == 1..MaxTile

\* ImageFormat::extension
extension(fmt) ==
    CASE fmt = "JPEG" -> "jpg"
      [] fmt = "PNG" -> "png"
      [] fmt = "TIFF" -> "tif"

(***************************************************************************)
(* Stripe operations on their own (SpecStripe)                             *)
(***************************************************************************)
StripeDims == 1..MaxStripeDim

Extents == -1..MaxExtent

Gravities == {NoneVal, "SouthWest"}

Backgrounds == {NoneVal, "#ffffffff"}

TargetFile == <<"target", 0, 0>>

NoCall == [op |-> "none"]

NoResult == [kind |-> "none"]

StripeIdle ==
    /\ sSelf = StripeNew(<<"self", 0, 0>>, 0, 0, "Horizontal")
    /\ sOther = StripeNew(<<"other", 0, 0>>, 0, 0, "Horizontal")
    /\ sCall = NoCall
    /\ sResult = NoResult

StripeInit ==
    /\ sSelf \in {StripeNew(<<"self", 0, 0>>, w, h, o) : w \in StripeDims, h \in StripeDims, o \in Orientation}
    /\ sOther \in {StripeNew(<<"other", 0, 0>>, w, h, o) : w \in StripeDims, h \in StripeDims, o \in Orientation}
    /\ sCall = NoCall
    /\ sResult = NoResult

CanvasCall(op, gravity, x_extent, y_extent, bg) ==
    [op |-> op, gravity |-> gravity, x_extent |-> x_extent, y_extent |-> y_extent, bg |-> bg]

StripeMerge ==
    /\ sCall = NoCall
    /\ \E procOk \in BOOLEAN :
         /\ sCall' = CanvasCall("merge", NoneVal, -1, -1, NoneVal)
         /\ sResult' = merge(sSelf, sOther, TargetFile, procOk)
    /\ UNCHANGED <<sSelf, sOther, convVars>>

StripeMergeWithCanvas ==
    /\ sCall = NoCall
    /\ \E procOk \in BOOLEAN, g \in Gravities, xe \in Extents, ye \in Extents, bg \in Backgrounds :
         /\ sCall' = CanvasCall("merge_with_canvas", g, xe, ye, bg)
         /\ sResult' = merge_with_canvas(sSelf, sOther, g, xe, ye, bg, TargetFile, procOk)
    /\ UNCHANGED <<sSelf, sOther, convVars>>

StripeShrink ==
    /\ sCall = NoCall
    /\ \E procOk \in BOOLEAN :
         /\ sCall' = CanvasCall("shrink", NoneVal, -1, -1, NoneVal)
         /\ sResult' = shrink(sSelf, TargetFile, procOk)
    /\ UNCHANGED <<sSelf, sOther, convVars>>

StripeShrinkWithCanvas ==
    /\ sCall = NoCall
    /\ \E procOk \in BOOLEAN, g \in Gravities, xe \in Extents, ye \in Extents, bg \in Backgrounds :
         /\ sCall' = CanvasCall("shrink_with_canvas", g, xe, ye, bg)
         /\ sResult' = shrink_with_canvas(sSelf, g, xe, ye, bg, TargetFile, procOk)
    /\ UNCHANGED <<sSelf, sOther, convVars>>

(***************************************************************************)
(* BaseMagickTiler (magick_tiler.rs) and TileSetInfo::new                  *)
(***************************************************************************)
NoInfo == [width |-> 0, height |-> 0, tile_width |-> 0, tile_height |-> 0, format |-> "none"]

\* TileSetInfo::new: the dimensions are not read from the image
TileSetInfoNew(tile_width, tile_height, fmt) ==
    [width |-> 0, height |-> 0, tile_width |-> tile_width, tile_height |-> tile_height, format |-> fmt]

\* TileSetInfo::set_dimension
set_dimension(i, width, height) == [i EXCEPT !.width = width, !.height = height]

\* BaseMagickTiler::convert_internal: returns the info it was given
BaseConvertInternal(i) == [kind |-> "Ok", info |-> i]

ConvIdle ==
    /\ entry = "none"
    /\ pc = "idle"
    /\ info = NoInfo
    /\ lvl = 0
    /\ idx = 0
    /\ levelBeneath = <<>>
    /\ thisLevel = <<>>
    /\ startIdx = 0
    /\ offset = 0
    /\ rootExists = FALSE
    /\ tiles = {}
    /\ stripeFiles = {}
    /\ deleted = {}
    /\ cropped = FALSE
    /\ exitFailed = FALSE
    /\ procCalls = <<>>
    /\ meta = <<>>
    /\ preview = FALSE
    /\ baseImage = <<>>
    /\ result = "none"
    /\ rerun = FALSE
    /\ snap = <<>>
    /\ vres = NoResult
    /\ vdir = {}

Snapshot == <<tiles, meta, stripeFiles>>

\* what every way of returning from a conversion leaves alone
Config == <<scheme, srcW, srcH, tileSize, format, genPreview>>

Return(res) ==
    /\ result' = res
    /\ pc' = IF res = "Ok" THEN "done" ELSE "failed"

\* MagickTiler::convert_to of each tiler forwards to BaseMagickTiler::convert_to,
\* which ends in BaseMagickTiler::convert_internal.
ConvertTo ==
    /\ pc = "idle"
    /\ entry \in {"none", "convert_to"}
    /\ entry' = "convert_to"
    /\ \/ /\ rootExists' = TRUE
          /\ LET r == BaseConvertInternal(TileSetInfoNew(tileSize, tileSize, format))
             IN  /\ info' = r.info
                 /\ Return(r.kind)
       \/ /\ ~rootExists           \* create_dir_all fails
          /\ UNCHANGED <<rootExists, info>>
          /\ Return("Err")
    /\ UNCHANGED <<Config, lvl, idx, levelBeneath, thisLevel, startIdx, offset, tiles, stripeFiles, deleted, cropped, exitFailed, procCalls, meta, preview, baseImage, rerun, snap, vres, vdir, stripeVars>>

\* A caller of the library invokes the tiler's own MagickTiler::convert_internal
\* with the tileset root set and a TileSetInfo carrying the source's dimensions.
ConvertInternal ==
    /\ pc = "idle"
    /\ entry \in {"none", "convert_internal"}
    /\ entry' = "convert_internal"
    /\ rootExists' = TRUE
    /\ info' = set_dimension(TileSetInfoNew(tileSize, tileSize, format), srcW, srcH)
    /\ pc' = CASE scheme = "Zoomify" -> "z_stripe"
               [] scheme = "TMS" -> "t_stripe"
               [] scheme = "GoogleMaps" -> "g_resize"
    /\ UNCHANGED <<Config, lvl, idx, levelBeneath, thisLevel, startIdx, offset, tiles, stripeFiles, deleted, cropped, exitFailed, procCalls, meta, preview, baseImage, result, rerun, snap, vres, vdir, stripeVars>>

\* A second conversion with the same configuration into the same directory.
Rerun ==
    /\ pc = "done"
    /\ ~rerun
    /\ rerun' = TRUE
    /\ snap' = Snapshot
    /\ pc' = "idle"
    /\ result' = "none"
    /\ vres' = NoResult
    /\ vdir' = {}
    /\ info' = NoInfo
    /\ lvl' = 0
    /\ idx' = 0
    /\ levelBeneath' = <<>>
    /\ thisLevel' = <<>>
    /\ startIdx' = 0
    /\ offset' = 0
    /\ deleted' = {}
    /\ procCalls' = <<>>
    /\ UNCHANGED <<Config, entry, rootExists, tiles, stripeFiles, cropped, exitFailed, meta, preview, baseImage, stripeVars>>

\* BaseMagickTiler::stripe_image: `count` stripes of the canvas size, named
\* prefix + index, in index order.
stripe_image(orientation, count, canvas_w, canvas_h) ==
    [i \in 1..count |-> StripeNew(<<"stripe", 0, i - 1>>, canvas_w, canvas_h, orientation)]

StripeFilesOf(stripes) == {stripes[i].file : i \in 1..Len(stripes)}

(***************************************************************************)
(* ZoomifyTiler (zoomify/zoomify_tiler.rs)                                 *)
(***************************************************************************)
MAX_TILES_PER_GROUP == 256

\* a tile file TileGroup<g>/<name>; <name> as the pieces format! joins
ZoomifyTileName(z, col, row) == <<z, "-", col, "-", row, ".jpg">>

TileGroupDir(tile_group) == <<"TileGroup", tile_group>>

ZoomifyTile(tile_group, z, col, row) ==
    [dir |-> TileGroupDir(tile_group), name |-> ZoomifyTileName(z, col, row)]

\* generate_zoomify_tiles taking the TileGroup from the index within the row
generate_zoomify_tiles_rowidx(zoomlevel, x_tiles, start_idx, row_number, renamed) ==
    {ZoomifyTile(i \div MAX_TILES_PER_GROUP, zoomlevel, i % x_tiles, row_number) : i \in 0..(renamed - 1)}

\* generate_zoomify_tiles: the tiles its first `renamed` renames put in place
generate_zoomify_tiles(zoomlevel, x_tiles, start_idx, row_number, renamed) ==
    {ZoomifyTile((start_idx + i) \div MAX_TILES_PER_GROUP, zoomlevel, i % x_tiles, row_number) : i \in 0..(renamed - 1)}

\* ZoomifyTiler::merge_stripes
zoomify_merge_stripes(stripe1, stripe2, target_file, procOk) ==
    IF stripe2 = NoStripe
    THEN shrink(stripe1, target_file, procOk)
    ELSE merge(stripe1, stripe2, target_file, procOk)

\* generate_image_properties_xml: the attributes of the IMAGE_PROPERTIES element
ImagePropertiesXml(i) ==
    << <<"WIDTH", i.width>>, <<"HEIGHT", i.height>>, <<"NUMTILES", total_number_of_tiles(i)>>, <<"NUMIMAGES", 1>>, <<"VERSION", 18>>, <<"TILESIZE", i.tile_height>> >>

ConvFrame == <<Config, entry, rootExists, rerun, snap, vres, vdir, baseImage, stripeVars>>

\* Step 1: stripe the base image
ZoomifyStripeBase ==
    /\ cropped' = TRUE
    /\ UNCHANGED <<exitFailed, procCalls>>
    /\ pc = "z_stripe"
    /\ \/ LET base_stripes == stripe_image("Horizontal", number_of_y_tiles(info, 0), info.width, info.tile_height)
          IN  /\ levelBeneath' = base_stripes
              /\ stripeFiles' = stripeFiles \cup StripeFilesOf(base_stripes)
              /\ startIdx' = total_number_of_tiles(info) - number_of_x_tiles(info, 0) * number_of_y_tiles(info, 0)
              /\ offset' = total_number_of_tiles(info) - number_of_x_tiles(info, 0) * number_of_y_tiles(info, 0)
              /\ idx' = 0
              /\ pc' = "z_base"
              /\ UNCHANGED result
       \/ /\ Return("Err")
          /\ UNCHANGED <<levelBeneath, stripeFiles, startIdx, offset, idx>>
    /\ UNCHANGED <<ConvFrame, info, lvl, thisLevel, tiles, deleted, meta, preview>>

\* Step 2: tile base stripe idx (one pass of the loop over base_stripes)
ZoomifyTileBase ==
    /\ cropped' = TRUE
    /\ UNCHANGED procCalls
    /\ pc = "z_base"
    /\ idx < Len(levelBeneath)
    /\ \E spawned \in BOOLEAN, exit \in ExitCodes :
         LET x_tiles == number_of_x_tiles(info, 0)
         IN  /\ exitFailed' = (exitFailed \/ NonZeroExit(spawned, exit))
             /\ IF crop(spawned, exit) = "Err"
                THEN /\ Return("Err")
                     /\ UNCHANGED <<tiles, offset, idx>>
                ELSE \/ /\ tiles' = tiles \cup generate_zoomify_tiles(zoom_levels(info) - 1, x_tiles, offset, idx, x_tiles)
                        /\ offset' = offset + x_tiles
                        /\ idx' = idx + 1
                        /\ UNCHANGED <<pc, result>>
                     \/ \E renamed \in 0..(x_tiles - 1) :      \* a rename fails
                          /\ tiles' = tiles \cup generate_zoomify_tiles(zoom_levels(info) - 1, x_tiles, offset, idx, renamed)
                          /\ Return("Err")
                          /\ UNCHANGED <<offset, idx>>
    /\ UNCHANGED <<ConvFrame, info, lvl, levelBeneath, thisLevel, startIdx, stripeFiles, deleted, meta, preview>>

\* Step 3: the header of the loop over the levels: for i in 1..zoom_levels
ZoomifyNextLevel ==
    /\ UNCHANGED <<cropped, exitFailed, procCalls>>
    /\ \/ pc = "z_base" /\ idx = Len(levelBeneath) /\ lvl' = 1
       \/ pc = "z_next" /\ lvl' = lvl + 1
    /\ IF lvl' < zoom_levels(info)
       THEN /\ startIdx' = startIdx - number_of_x_tiles(info, lvl') * number_of_y_tiles(info, lvl')
            /\ offset' = startIdx'
            /\ idx' = 0
            /\ pc' = "z_level"
       ELSE /\ pc' = "z_final_delete"
            /\ UNCHANGED <<startIdx, offset, idx>>
    /\ UNCHANGED <<ConvFrame, info, levelBeneath, thisLevel, tiles, stripeFiles, deleted, meta, preview, result>>

\* passes that take the stripes (j, j + 1) instead of (2j, 2j + 1)
PairOf_adjacent(level_beneath, j) ==
    <<level_beneath[j + 1], IF j + 1 < Len(level_beneath) THEN level_beneath[j + 2] ELSE NoStripe>>

\* the pair of stripes pass j of a level merges (the second is None when unpaired)
PairOf(level_beneath, j) ==
    <<level_beneath[2 * j + 1], IF 2 * j + 1 < Len(level_beneath) THEN level_beneath[2 * j + 2] ELSE NoStripe>>

\* number of passes of a level's inner loop: ceil(len / 2)
Passes(level_beneath) == CeilDiv(Len(level_beneath), 2)

\* Steps 3a and 3b: merge pair idx of the level beneath and tile the result
ZoomifyMergeTile ==
    /\ cropped' = TRUE
    /\ pc = "z_level"
    /\ idx < Passes(levelBeneath)
    /\ \E procOk \in BOOLEAN, spawned \in BOOLEAN, exit \in ExitCodes :
         LET pair == PairOf(levelBeneath, idx)
             r == zoomify_merge_stripes(pair[1], pair[2], <<"stripe", lvl, idx>>, procOk)
             x_tiles == number_of_x_tiles(info, lvl)
             z == zoom_levels(info) - lvl - 1
         IN  /\ procCalls' = procCalls \o r.calls
             /\ IF r.kind = "Err"
                THEN /\ Return("Err")
                     /\ UNCHANGED <<thisLevel, stripeFiles, tiles, offset, idx, exitFailed>>
                ELSE /\ thisLevel' = Append(thisLevel, r.stripe)
                     /\ stripeFiles' = stripeFiles \cup {r.stripe.file}
                     /\ exitFailed' = (exitFailed \/ NonZeroExit(spawned, exit))
                     /\ IF crop(spawned, exit) = "Err"
                        THEN /\ Return("Err")
                             /\ UNCHANGED <<tiles, offset, idx>>
                        ELSE \/ /\ tiles' = tiles \cup generate_zoomify_tiles(z, x_tiles, offset, idx, x_tiles)
                                /\ offset' = offset + x_tiles
                                /\ idx' = idx + 1
                                /\ UNCHANGED <<pc, result>>
                             \/ \E renamed \in 0..(x_tiles - 1) :
                                  /\ tiles' = tiles \cup generate_zoomify_tiles(z, x_tiles, offset, idx, renamed)
                                  /\ Return("Err")
                                  /\ UNCHANGED <<offset, idx>>
    /\ UNCHANGED <<ConvFrame, info, lvl, levelBeneath, startIdx, deleted, meta, preview>>

\* a delete loop that stops one stripe short
DeleteFirst_short(stripes, n) == {stripes[i].file : i \in 1..(n - 1)}

\* a delete loop that skips the first stripe
DeleteFirst_skipfirst(stripes, n) == {stripes[i].file : i \in 2..n}

\* Stripe::delete on the first n stripes of a list
DeleteFirst(stripes, n) == {stripes[i].file : i \in 1..n}

\* the loop `for s in &level_beneath { s.delete()?; }` ending a level's pass
ZoomifyDeleteLevel ==
    /\ UNCHANGED <<cropped, exitFailed, procCalls>>
    /\ pc = "z_level"
    /\ idx = Passes(levelBeneath)
    /\ \/ /\ stripeFiles' = stripeFiles \ DeleteFirst(levelBeneath, Len(levelBeneath))
          /\ deleted' = deleted \cup DeleteFirst(levelBeneath, Len(levelBeneath))
          /\ levelBeneath' = thisLevel
          /\ thisLevel' = <<>>
          /\ pc' = "z_next"
          /\ UNCHANGED result
       \/ \E n \in 0..(Len(levelBeneath) - 1) :    \* remove_file fails on stripe n
            /\ stripeFiles' = stripeFiles \ DeleteFirst(levelBeneath, n)
            /\ deleted' = deleted \cup DeleteFirst(levelBeneath, n)
            /\ Return("Err")
            /\ UNCHANGED <<levelBeneath, thisLevel>>
    /\ UNCHANGED <<ConvFrame, info, lvl, idx, startIdx, offset, tiles, meta, preview>>

\* the loop deleting the last level's stripes after the level loop
ZoomifyFinalDelete ==
    /\ UNCHANGED <<cropped, exitFailed, procCalls>>
    /\ pc = "z_final_delete"
    /\ \/ /\ stripeFiles' = stripeFiles \ DeleteFirst(levelBeneath, Len(levelBeneath))
          /\ deleted' = deleted \cup DeleteFirst(levelBeneath, Len(levelBeneath))
          /\ pc' = "z_meta"
          /\ UNCHANGED result
       \/ \E n \in 0..(Len(levelBeneath) - 1) :
            /\ stripeFiles' = stripeFiles \ DeleteFirst(levelBeneath, n)
            /\ deleted' = deleted \cup DeleteFirst(levelBeneath, n)
            /\ Return("Err")
    /\ UNCHANGED <<ConvFrame, info, lvl, idx, levelBeneath, thisLevel, startIdx, offset, tiles, meta, preview>>

\* Step 4: ImageProperties.xml
ZoomifyMetadata ==
    /\ UNCHANGED <<cropped, exitFailed, procCalls>>
    /\ pc = "z_meta"
    /\ \/ /\ meta' = ImagePropertiesXml(info)
          /\ pc' = "z_preview"
          /\ UNCHANGED result
       \/ /\ Return("Err")                          \* File::create or write_all fails
          /\ UNCHANGED meta
    /\ UNCHANGED <<ConvFrame, info, lvl, idx, levelBeneath, thisLevel, startIdx, offset, tiles, stripeFiles, deleted, preview>>

\* Step 5: the optional preview, then Ok(info)
ZoomifyPreview ==
    /\ UNCHANGED <<cropped, exitFailed, procCalls>>
    /\ pc = "z_preview"
    /\ \/ /\ preview' = (preview \/ genPreview)
          /\ Return("Ok")
       \/ /\ genPreview                             \* writing preview.html fails
          /\ Return("Err")
          /\ UNCHANGED preview
    /\ UNCHANGED <<ConvFrame, info, lvl, idx, levelBeneath, thisLevel, startIdx, offset, tiles, stripeFiles, deleted, meta>>

(***************************************************************************)
(* ZoomifyValidator (zoomify/zoomify_validator.rs)                         *)
(***************************************************************************)
OkResult == [kind |-> "Ok"]

ValidationFailed(msg) == [kind |-> "Err", err |-> "ValidationFailed", msg |-> msg]

\* str::to_lowercase on the attribute names the descriptor carries
ToLowercase(name) ==
    CASE name = "WIDTH" -> "width"
      [] name = "HEIGHT" -> "height"
      [] name = "NUMTILES" -> "numtiles"
      [] name = "NUMIMAGES" -> "numimages"
      [] name = "VERSION" -> "version"
      [] name = "TILESIZE" -> "tilesize"
      [] OTHER -> name

\* extract_value: the positions of attr="..." in the lowercased descriptor
AttrPositions(xml, attr) == {i \in 1..Len(xml) : ToLowercase(xml[i][1]) = attr}

HasAttr(xml, attr) == AttrPositions(xml, attr) # {}

extract_value(xml, attr) ==
    xml[CHOOSE i \in AttrPositions(xml, attr) : \A k \in AttrPositions(xml, attr) : i <= k][2]

\* parse_image_properties halving the base tile counts without the ceiling
parse_image_properties_floor(xml) ==
    LET width == extract_value(xml, "width")
        height == extract_value(xml, "height")
        numtiles == extract_value(xml, "numtiles")
        tile_size == extract_value(xml, "tilesize")
        x_base_tiles == CeilDiv(width, tile_size)
        y_base_tiles == CeilDiv(height, tile_size)
        max_tiles == Max(x_base_tiles, y_base_tiles)
        zl == IF max_tiles = 0 THEN I32Min + 1 ELSE CeilLog2(max_tiles) + 1
    IN  [tile_groups |-> CeilDiv(numtiles, MAX_TILES_PER_GROUP),
         tiles_in_last_group |-> numtiles % MAX_TILES_PER_GROUP,
         tile_size |-> tile_size,
         zoom_levels |-> zl,
         x_tiles |-> [k \in 0..(zl - 1) |-> x_base_tiles \div (2^k)],
         y_tiles |-> [k \in 0..(zl - 1) |-> y_base_tiles \div (2^k)]]

\* parse_image_properties: the fields it leaves in the validator
parse_image_properties(xml) ==
    LET width == extract_value(xml, "width")
        height == extract_value(xml, "height")
        numtiles == extract_value(xml, "numtiles")
        tile_size == extract_value(xml, "tilesize")
        x_base_tiles == CeilDiv(width, tile_size)
        y_base_tiles == CeilDiv(height, tile_size)
        max_tiles == Max(x_base_tiles, y_base_tiles)
        zl == IF max_tiles = 0 THEN I32Min + 1 ELSE CeilLog2(max_tiles) + 1
    IN  [tile_groups |-> CeilDiv(numtiles, MAX_TILES_PER_GROUP),
         tiles_in_last_group |-> numtiles % MAX_TILES_PER_GROUP,
         tile_size |-> tile_size,
         zoom_levels |-> zl,
         x_tiles |-> [k \in 0..(zl - 1) |-> CeilDiv(x_base_tiles, 2^k)],
         y_tiles |-> [k \in 0..(zl - 1) |-> CeilDiv(y_base_tiles, 2^k)]]

\* all_tiles: the file names found in each TileGroup directory
TileGroupsOf(files) == {f.dir[2] : f \in files}

AllTiles(files, tile_group) == {f.name : f \in {g \in files : g.dir = TileGroupDir(tile_group)}}

\* the per-directory count check of check_tile_directories: the errors it can
\* return (read_dir yields the directories in no particular order)
DirectoryErrors(v, files) ==
    {ValidationFailed(<<"Missing tiles in directory", g, Cardinality(AllTiles(files, g)), IF g < v.tile_groups - 2 THEN MAX_TILES_PER_GROUP ELSE v.tiles_in_last_group>>) :
        g \in {t \in TileGroupsOf(files) :
                 IF t < v.tile_groups - 2
                 THEN Cardinality(AllTiles(files, t)) < MAX_TILES_PER_GROUP
                 ELSE Cardinality(AllTiles(files, t)) < v.tiles_in_last_group}}

\* tiles visited before level zoom_level by check_for_each_tile, which walks
\* the levels from zoom_levels - 1 down to 0
RECURSIVE TilesBefore(_, _)
TilesBefore(v, zoom_level) ==
    IF zoom_level >= v.zoom_levels - 1 THEN 0
    ELSE TilesBefore(v, zoom_level + 1) + v.x_tiles[zoom_level + 1] * v.y_tiles[zoom_level + 1]

\* check_for_each_tile: the tiles of one level it looks up, each with the
\* value of its counter
ExpectedTilesAt(v, zoom_level) ==
    {[tile |-> TilesBefore(v, zoom_level) + row * v.x_tiles[zoom_level] + col,
      tile_group |-> (TilesBefore(v, zoom_level) + row * v.x_tiles[zoom_level] + col) \div MAX_TILES_PER_GROUP,
      tile_name |-> ZoomifyTileName(v.zoom_levels - 1 - zoom_level, col, row)] :
        row \in 0..(v.y_tiles[zoom_level] - 1), col \in 0..(v.x_tiles[zoom_level] - 1)}

ExpectedTiles(v) == UNION {ExpectedTilesAt(v, zoom_level) : zoom_level \in 0..(v.zoom_levels - 1)}

MissingTiles(v, files) == {e \in ExpectedTiles(v) : e.tile_name \notin AllTiles(files, e.tile_group)}

check_for_each_tile(v, files) ==
    IF MissingTiles(v, files) = {}
    THEN OkResult
    ELSE LET first == CHOOSE e \in MissingTiles(v, files) : \A o \in MissingTiles(v, files) : e.tile <= o.tile
         IN  ValidationFailed(<<"Missing tile", first.tile_name>>)

\* ZoomifyValidator::validate: the results it can return
ZoomifyValidate(isDir, xml, files) ==
    IF ~isDir THEN {ValidationFailed(<<"Not a zoomify tileset">>)}
    ELSE IF xml = <<>> THEN {ValidationFailed(<<"Not a Zoomify tileset - missing ImageProperties.xml">>)}
    ELSE IF \E a \in {"width", "height", "numtiles", "tilesize"} : ~HasAttr(xml, a)
         THEN {ValidationFailed(<<"Missing attribute">>)}
    ELSE LET v == parse_image_properties(xml)
         IN  IF DirectoryErrors(v, files) # {}
             THEN DirectoryErrors(v, files)
             ELSE {check_for_each_tile(v, files)}

(***************************************************************************)
(* TMSTiler (tms/mod.rs)                                                   *)
(***************************************************************************)
GRAVITY_SOUTHWEST == "SouthWest"

\* a tile file <z>/<col>/<row>.<ext>
TMSTile(z, col, row, ext) == [dir |-> <<z, col>>, name |-> <<row, ".", ext>>]

\* the file crop writes for the k-th tile of a stripe: tmp-<k>.<ext>
TMSTmpName(k, ext) == <<"tmp-", k, ".", ext>>

\* the row tmp-<k> is renamed to, with the row axis not inverted
tms_row_top(stripe, i, k) == k

\* the row tmp-<k> is renamed to: (stripe.height / tile_height) - k - 1
tms_row(stripe, i, k) == (stripe.height \div i.tile_height) - k - 1

\* generate_tms_tiles: the tiles its first `renamed` renames put in place
generate_tms_tiles(stripe, i, z, col, renamed) ==
    {TMSTile(z, col, tms_row(stripe, i, k), extension(i.format)) : k \in 0..(renamed - 1)}

\* the number of renames of generate_tms_tiles
TMSRenames(stripe, i) == stripe.height \div i.tile_height

\* the height policy of TMSTiler::merge_stripes
TMSMergeHeight(stripe1, tile_height) ==
    IF (stripe1.height \div tile_height) % 2 # 0
    THEN stripe1.height \div 2 + tile_height \div 2
    ELSE stripe1.height \div 2

\* TMSTiler::merge_stripes
tms_merge_stripes(stripe1, stripe2, tile_width, tile_height, target_file, procOk) ==
    IF stripe2 = NoStripe
    THEN shrink_with_canvas(stripe1, GRAVITY_SOUTHWEST, tile_width, TMSMergeHeight(stripe1, tile_height), "#ffffffff", target_file, procOk)
    ELSE merge_with_canvas(stripe1, stripe2, GRAVITY_SOUTHWEST, tile_width, TMSMergeHeight(stripe1, tile_height), "#ffffffff", target_file, procOk)

\* a canvas height rounded up to a multiple of the tile height, none added
TMSCanvasHeight_roundup(i) == CeilDiv(i.height, i.tile_height) * i.tile_height

\* the padded canvas height of step 1
TMSCanvasHeight(i) == i.height + i.tile_height - (i.height % i.tile_height)

\* generate_tilemap_resource_xml with the units-per-pixel ascending: 2^i
TileMapResourceXml_ascending(i) ==
    << <<"width", i.width>>, <<"height", i.height>>, <<"tilewidth", i.tile_width>>, <<"tileheight", i.tile_height>>, <<"tilesets", [k \in 1..zoom_levels(i) |-> <<k - 1, 2^(k - 1)>>]>> >>

\* generate_tilemap_resource_xml: what the template is filled with
TileMapResourceXml(i) ==
    << <<"width", i.width>>, <<"height", i.height>>, <<"tilewidth", i.tile_width>>, <<"tileheight", i.tile_height>>, <<"tilesets", [k \in 1..zoom_levels(i) |-> <<k - 1, 2^(zoom_levels(i) - (k - 1) - 1)>>]>> >>

\* Step 1: stripe the base image; then create the base layer's directory
TMSStripeBase ==
    /\ cropped' = TRUE
    /\ UNCHANGED <<exitFailed, procCalls>>
    /\ pc = "t_stripe"
    /\ \/ LET base_stripes == stripe_image("Vertical", number_of_x_tiles(info, 0), info.tile_width, TMSCanvasHeight(info))
          IN  /\ levelBeneath' = base_stripes
              /\ stripeFiles' = stripeFiles \cup StripeFilesOf(base_stripes)
              /\ idx' = 0
              /\ pc' = "t_base"
              /\ UNCHANGED result
       \/ /\ Return("Err")
          /\ UNCHANGED <<levelBeneath, stripeFiles, idx>>
    /\ UNCHANGED <<ConvFrame, info, lvl, thisLevel, startIdx, offset, tiles, deleted, meta, preview>>

\* Step 2: tile base stripe idx
TMSTileBase ==
    /\ cropped' = TRUE
    /\ UNCHANGED procCalls
    /\ pc = "t_base"
    /\ idx < Len(levelBeneath)
    /\ \E spawned \in BOOLEAN, exit \in ExitCodes :
         LET stripe == levelBeneath[idx + 1]
             z == zoom_levels(info) - 1
         IN  /\ exitFailed' = (exitFailed \/ NonZeroExit(spawned, exit))
             /\ IF crop(spawned, exit) = "Err"
                THEN /\ Return("Err")
                     /\ UNCHANGED <<tiles, idx>>
                ELSE \/ /\ tiles' = tiles \cup generate_tms_tiles(stripe, info, z, idx, TMSRenames(stripe, info))
                        /\ idx' = idx + 1
                        /\ UNCHANGED <<pc, result>>
                     \/ \E renamed \in 0..Max(TMSRenames(stripe, info) - 1, 0) :
                          /\ tiles' = tiles \cup generate_tms_tiles(stripe, info, z, idx, renamed)
                          /\ Return("Err")
                          /\ UNCHANGED idx
    /\ UNCHANGED <<ConvFrame, info, lvl, levelBeneath, thisLevel, startIdx, offset, stripeFiles, deleted, meta, preview>>

\* Step 3: the header of the loop over the levels
TMSNextLevel ==
    /\ UNCHANGED <<cropped, exitFailed, procCalls>>
    /\ \/ pc = "t_base" /\ idx = Len(levelBeneath) /\ lvl' = 1
       \/ pc = "t_next" /\ lvl' = lvl + 1
    /\ IF lvl' < zoom_levels(info)
       THEN idx' = 0 /\ pc' = "t_level"
       ELSE pc' = "t_final_delete" /\ UNCHANGED idx
    /\ UNCHANGED <<ConvFrame, info, levelBeneath, thisLevel, startIdx, offset, tiles, stripeFiles, deleted, meta, preview, result>>

\* Steps 3a and 3b: merge pair idx of the level beneath and tile the result
TMSMergeTile ==
    /\ cropped' = TRUE
    /\ pc = "t_level"
    /\ idx < Passes(levelBeneath)
    /\ \E procOk \in BOOLEAN, spawned \in BOOLEAN, exit \in ExitCodes :
         LET pair == PairOf(levelBeneath, idx)
             r == tms_merge_stripes(pair[1], pair[2], tileSize, tileSize, <<"stripe", lvl, idx>>, procOk)
             z == zoom_levels(info) - lvl - 1
         IN  /\ procCalls' = procCalls \o r.calls
             /\ IF r.kind = "Err"
                THEN /\ Return("Err")
                     /\ UNCHANGED <<thisLevel, stripeFiles, tiles, idx, exitFailed>>
                ELSE /\ thisLevel' = Append(thisLevel, r.stripe)
                     /\ stripeFiles' = stripeFiles \cup {r.stripe.file}
                     /\ exitFailed' = (exitFailed \/ NonZeroExit(spawned, exit))
                     /\ IF crop(spawned, exit) = "Err"
                        THEN /\ Return("Err")
                             /\ UNCHANGED <<tiles, idx>>
                        ELSE \/ /\ tiles' = tiles \cup generate_tms_tiles(r.stripe, info, z, idx, TMSRenames(r.stripe, info))
                                /\ idx' = idx + 1
                                /\ UNCHANGED <<pc, result>>
                             \/ \E renamed \in 0..Max(TMSRenames(r.stripe, info) - 1, 0) :
                                  /\ tiles' = tiles \cup generate_tms_tiles(r.stripe, info, z, idx, renamed)
                                  /\ Return("Err")
                                  /\ UNCHANGED idx
    /\ UNCHANGED <<ConvFrame, info, lvl, levelBeneath, startIdx, offset, deleted, meta, preview>>

\* the loop deleting the level beneath, ending a level's pass
TMSDeleteLevel ==
    /\ UNCHANGED <<cropped, exitFailed, procCalls>>
    /\ pc = "t_level"
    /\ idx = Passes(levelBeneath)
    /\ \/ /\ stripeFiles' = stripeFiles \ DeleteFirst(levelBeneath, Len(levelBeneath))
          /\ deleted' = deleted \cup DeleteFirst(levelBeneath, Len(levelBeneath))
          /\ levelBeneath' = thisLevel
          /\ thisLevel' = <<>>
          /\ pc' = "t_next"
          /\ UNCHANGED result
       \/ \E n \in 0..(Len(levelBeneath) - 1) :
            /\ stripeFiles' = stripeFiles \ DeleteFirst(levelBeneath, n)
            /\ deleted' = deleted \cup DeleteFirst(levelBeneath, n)
            /\ Return("Err")
            /\ UNCHANGED <<levelBeneath, thisLevel>>
    /\ UNCHANGED <<ConvFrame, info, lvl, idx, startIdx, offset, tiles, meta, preview>>

\* the loop deleting the last level's stripes after the level loop
TMSFinalDelete ==
    /\ UNCHANGED <<cropped, exitFailed, procCalls>>
    /\ pc = "t_final_delete"
    /\ \/ /\ stripeFiles' = stripeFiles \ DeleteFirst(levelBeneath, Len(levelBeneath))
          /\ deleted' = deleted \cup DeleteFirst(levelBeneath, Len(levelBeneath))
          /\ pc' = "t_meta"
          /\ UNCHANGED result
       \/ \E n \in 0..(Len(levelBeneath) - 1) :
            /\ stripeFiles' = stripeFiles \ DeleteFirst(levelBeneath, n)
            /\ deleted' = deleted \cup DeleteFirst(levelBeneath, n)
            /\ Return("Err")
    /\ UNCHANGED <<ConvFrame, info, lvl, idx, levelBeneath, thisLevel, startIdx, offset, tiles, meta, preview>>

\* Step 4: tilemapresource.xml
TMSMetadata ==
    /\ UNCHANGED <<cropped, exitFailed, procCalls>>
    /\ pc = "t_meta"
    /\ \/ /\ meta' = TileMapResourceXml(info)
          /\ pc' = "t_preview"
          /\ UNCHANGED result
       \/ /\ Return("Err")
          /\ UNCHANGED meta
    /\ UNCHANGED <<ConvFrame, info, lvl, idx, levelBeneath, thisLevel, startIdx, offset, tiles, stripeFiles, deleted, preview>>

\* Step 5: the optional preview, then Ok(info)
TMSPreview ==
    /\ UNCHANGED <<cropped, exitFailed, procCalls>>
    /\ pc = "t_preview"
    /\ \/ /\ preview' = (preview \/ genPreview)
          /\ Return("Ok")
       \/ /\ genPreview
          /\ Return("Err")
          /\ UNCHANGED preview
    /\ UNCHANGED <<ConvFrame, info, lvl, idx, levelBeneath, thisLevel, startIdx, offset, tiles, stripeFiles, deleted, meta>>

(***************************************************************************)
(* GoogleMapsTiler (gmaps/google_maps_tiler.rs)                            *)
(***************************************************************************)
GMapsBaseSide == 256

\* the name a tile is renamed to: tile_base.with_extension("_<col>_<row>_.<ext>")
\* on the path <root>/<z>
GoogleMapsTileName(z, column, row, ext) == <<z, ".", "_", column, "_", row, "_", ".", ext>>

GoogleMapsTile(z, column, row, ext) == [dir |-> <<"root", 0>>, name |-> GoogleMapsTileName(z, column, row, ext)]

\* the loop of resize_base_image: <<prev_max_dim, new_max_dim>> at its break
RECURSIVE ResizeLoop(_, _, _)
ResizeLoop(max_dim, pow, new_max_dim) ==
    IF GMapsBaseSide * (2^pow) > max_dim
    THEN <<new_max_dim, GMapsBaseSide * (2^pow)>>
    ELSE ResizeLoop(max_dim, pow + 1, GMapsBaseSide * (2^pow))

Abs(x) == IF x < 0 THEN -x ELSE x

\* resize_base_image: the side it chooses
NewMaxDim(i) ==
    LET max_dim == Max(i.width, i.height)
        l == ResizeLoop(max_dim, 0, 0)
    IN  IF Abs(max_dim - l[1]) < Abs(max_dim - l[2]) THEN l[1] ELSE l[2]

\* resize_base_image: <<new_width, new_height>> it asks the processor for;
\* (w as f32 / h as f32).ceil() is the integer ceiling for the sizes modelled
ResizeRequest(i) ==
    LET ratio == CeilDiv(i.width, i.height)
    IN  IF Max(i.width, i.height) = i.height
        THEN <<NewMaxDim(i) * ratio, NewMaxDim(i)>>
        ELSE <<NewMaxDim(i), NewMaxDim(i) * ratio>>

\* stripe_base_image: the orientation, the count and the canvas it stripes with,
\* and the squared dimension it sets
StripeBasePlan(i) ==
    IF i.width > i.height
    THEN [orientation |-> "Vertical", stripes |-> i.width \div i.tile_width, canvas_width |-> i.tile_width, canvas_height |-> i.width, side |-> i.width]
    ELSE [orientation |-> "Horizontal", stripes |-> i.height \div i.tile_height, canvas_width |-> i.height, canvas_height |-> i.tile_height, side |-> i.height]

\* the tiles one pass of the level loop renames into place
GoogleMapsLevelTiles(stripes, z, i) ==
    UNION {{IF stripes[s].orientation = "Horizontal"
            THEN GoogleMapsTile(z, t, s - 1, extension(i.format))
            ELSE GoogleMapsTile(z, s - 1, t, extension(i.format)) :
               t \in 0..((IF stripes[s].orientation = "Horizontal"
                          THEN stripes[s].width \div i.tile_width
                          ELSE stripes[s].height \div i.tile_height) - 1)} :
           s \in 1..Len(stripes)}

\* create_stripes_for_next_zoom_level: an unpaired last stripe is dropped
RECURSIVE create_stripes_for_next_zoom_level(_, _, _)
create_stripes_for_next_zoom_level(stripes, z, k) ==
    IF k >= Passes(stripes) THEN <<>>
    ELSE LET pair == PairOf(stripes, k)
         IN  (IF pair[2] # NoStripe
              THEN <<merge(pair[1], pair[2], <<"stripe", z, k>>, TRUE).stripe>>
              ELSE <<>>) \o create_stripes_for_next_zoom_level(stripes, z, k + 1)

\* the level loop `for z in (0..zoom_levels).rev()`: the tiles renamed into
\* place and the stripes created, when no processor call or rename fails
RECURSIVE GoogleMapsLevels(_, _, _)
GoogleMapsLevels(i, stripes, z) ==
    IF z < 0 THEN [tiles |-> {}, stripes |-> <<>>]
    ELSE LET next == create_stripes_for_next_zoom_level(stripes, zoom_levels(i) - z, 0)
             rest == GoogleMapsLevels(i, next, z - 1)
         IN  [tiles |-> GoogleMapsLevelTiles(stripes, z, i) \cup rest.tiles, stripes |-> next \o rest.stripes]

\* serde_json::to_string(&info): the fields by name
SerializeInfo(i) ==
    << <<"width", i.width>>, <<"height", i.height>>, <<"tile_width", i.tile_width>>, <<"tile_height", i.tile_height>>, <<"format", i.format>> >>

JsonField(json, key) == json[CHOOSE k \in 1..Len(json) : json[k][1] = key][2]

\* serde_json::from_str::<TileSetInfo>
DeserializeInfo(json) ==
    [width |-> JsonField(json, "width"), height |-> JsonField(json, "height"), tile_width |-> JsonField(json, "tile_width"), tile_height |-> JsonField(json, "tile_height"), format |-> JsonField(json, "format")]

\* Step 1: resize the base image; the TileSetInfo is built anew from the result
GoogleMapsResize ==
    /\ UNCHANGED <<cropped, procCalls>>
    /\ pc = "g_resize"
    /\ baseImage' = ResizeRequest(info)
    /\ \E spawned \in BOOLEAN, exit \in ExitCodes :
         /\ exitFailed' = (exitFailed \/ NonZeroExit(spawned, exit))
         /\ IF resize(spawned, exit) = "Err"
            THEN /\ Return("Err")
                 /\ UNCHANGED info
            ELSE \/ /\ info' = TileSetInfoNew(tileSize, tileSize, format)
                    /\ pc' = "g_stripe"
                    /\ UNCHANGED result
                 \/ /\ Return("Err")               \* TileSetInfo::new fails
                    /\ UNCHANGED info
    /\ UNCHANGED <<Config, entry, rootExists, rerun, snap, vres, vdir, stripeVars, lvl, idx, levelBeneath, thisLevel, startIdx, offset, tiles, stripeFiles, deleted, meta, preview>>

\* Step 2: stripe the base image, squaring the TileSetInfo
GoogleMapsStripeBase ==
    /\ cropped' = TRUE
    /\ UNCHANGED <<exitFailed, procCalls>>
    /\ pc = "g_stripe"
    /\ LET plan == StripeBasePlan(info)
       IN  \/ /\ info' = set_dimension(info, plan.side, plan.side)
              /\ levelBeneath' = stripe_image(plan.orientation, plan.stripes, plan.canvas_width, plan.canvas_height)
              /\ stripeFiles' = stripeFiles \cup StripeFilesOf(levelBeneath')
              /\ pc' = "g_levels"
              /\ UNCHANGED result
           \/ /\ info' = set_dimension(info, plan.side, plan.side)
              /\ Return("Err")
              /\ UNCHANGED <<levelBeneath, stripeFiles>>
    /\ UNCHANGED <<ConvFrame, lvl, idx, thisLevel, startIdx, offset, tiles, deleted, meta, preview>>

\* Step 3: the level loop; Step 4: the optional preview
GoogleMapsLevelsPreview ==
    /\ UNCHANGED <<cropped, exitFailed, procCalls>>
    /\ pc = "g_levels"
    /\ LET r == GoogleMapsLevels(info, levelBeneath, zoom_levels(info) - 1)
       IN  /\ tiles' = tiles \cup r.tiles
           /\ thisLevel' = levelBeneath \o r.stripes       \* all_stripes
           /\ stripeFiles' = stripeFiles \cup StripeFilesOf(r.stripes)
    /\ \/ /\ preview' = (preview \/ genPreview)
          /\ pc' = "g_meta"
          /\ UNCHANGED result
       \/ /\ genPreview
          /\ Return("Err")
          /\ UNCHANGED preview
    /\ UNCHANGED <<ConvFrame, info, lvl, idx, levelBeneath, startIdx, offset, deleted, meta>>

\* Step 5: gmap_tileset.info; then the clean-up, whose failures are only logged
GoogleMapsMetadata ==
    /\ UNCHANGED <<cropped, exitFailed, procCalls>>
    /\ pc = "g_meta"
    /\ \/ /\ meta' = SerializeInfo(info)
          /\ \E gone \in SUBSET StripeFilesOf(thisLevel) :
               /\ stripeFiles' = stripeFiles \ gone
               /\ deleted' = deleted \cup gone
          /\ Return("Ok")
       \/ /\ Return("Err")
          /\ UNCHANGED <<meta, stripeFiles, deleted>>
    /\ UNCHANGED <<ConvFrame, info, lvl, idx, levelBeneath, thisLevel, startIdx, offset, tiles, preview>>

(***************************************************************************)
(* GoogleMapsValidator (gmaps/google_maps_validator.rs)                    *)
(***************************************************************************)
\* the file name validate looks up for a tile
GoogleMapsValidatorTileName(z, x, y, ext) == <<z, "_", x, "_", y, "_", ext>>

\* the zoom levels with a tile validate does not find
GoogleMapsMissingLevels(i, files) ==
    {z \in 0..(zoom_levels(i) - 1) :
        \E x \in 0..(number_of_x_tiles(i, zoom_levels(i) - 1 - z) - 1), y \in 0..(number_of_y_tiles(i, zoom_levels(i) - 1 - z) - 1) :
            GoogleMapsValidatorTileName(z, x, y, extension(i.format)) \notin {f.name : f \in files}}

\* files_verified after the passes for levels 0..z, when no tile is missing
RECURSIVE FilesVerifiedUpTo(_, _)
FilesVerifiedUpTo(i, z) ==
    IF z < 0 THEN 0
    ELSE FilesVerifiedUpTo(i, z - 1)
         + number_of_x_tiles(i, zoom_levels(i) - 1 - z) * number_of_y_tiles(i, zoom_levels(i) - 1 - z)

GoogleMapsFilesVerified(i) == FilesVerifiedUpTo(i, zoom_levels(i) - 1)

\* GoogleMapsValidator::validate
GoogleMapsValidate(isDir, json, files) ==
    IF ~isDir \/ json = <<>>
    THEN ValidationFailed(<<"Not a MagickTiler Google Maps tileset, validation cannot be continued.">>)
    ELSE LET i == DeserializeInfo(json)
             missing == GoogleMapsMissingLevels(i, files)
         IN  IF missing # {}
             THEN ValidationFailed(<<"Files missing for zoom level", CHOOSE z \in missing : \A o \in missing : z <= o>>)
             ELSE IF GoogleMapsFilesVerified(i) # total_number_of_tiles(i)
                  THEN ValidationFailed(<<"Not enough files generated for Tileset!">>)
                  ELSE OkResult

(***************************************************************************)
(* The validators, run on the tileset directory                            *)
(***************************************************************************)
\* the conversion has returned Ok
Converted == pc = "done" /\ result = "Ok"

\* entries a tileset directory can hold besides the tiler's tiles: a file the
\* tiler did not write, in TileGroup0 or in TileGroup1
StrayEntries ==
    {{}, {[dir |-> TileGroupDir(0), name |-> <<"Thumbs.db">>]}, {[dir |-> TileGroupDir(1), name |-> <<"Thumbs.db">>]}}

\* The validator is run on the tileset directory: as the tiler left it, or
\* (a converted Zoomify tileset) with one tile file removed from it or a stray
\* entry added to it.
Validate ==
    /\ pc \in {"done", "failed"}
    /\ vres = NoResult
    /\ scheme \in {"Zoomify", "GoogleMaps"}
    /\ IF scheme = "Zoomify"
       THEN \E removed \in {{}} \cup {{t} : t \in tiles}, stray \in StrayEntries :
              /\ (removed # {} \/ stray # {}) => Converted
              /\ vdir' = (tiles \ removed) \cup stray
              /\ vres' \in ZoomifyValidate(rootExists, meta, vdir')
       ELSE /\ vdir' = tiles
            /\ vres' = GoogleMapsValidate(rootExists, meta, tiles)
    /\ UNCHANGED <<Config, entry, pc, info, lvl, idx, levelBeneath, thisLevel, startIdx, offset, rootExists, tiles, stripeFiles, deleted, cropped, exitFailed, procCalls, meta, preview, baseImage, result, rerun, snap, stripeVars>>

(***************************************************************************)
(* Specifications                                                          *)
(***************************************************************************)
Init ==
    /\ scheme \in Schemes
    /\ srcW \in Dims
    /\ srcH \in Dims
    /\ tileSize \in TileSizes
    /\ format \in Formats
    /\ genPreview \in BOOLEAN
    /\ ConvIdle
    /\ StripeIdle

Next ==
    \/ ConvertTo
    \/ ConvertInternal
    \/ Rerun
    \/ ZoomifyStripeBase
    \/ ZoomifyTileBase
    \/ ZoomifyNextLevel
    \/ ZoomifyMergeTile
    \/ ZoomifyDeleteLevel
    \/ ZoomifyFinalDelete
    \/ ZoomifyMetadata
    \/ ZoomifyPreview
    \/ TMSStripeBase
    \/ TMSTileBase
    \/ TMSNextLevel
    \/ TMSMergeTile
    \/ TMSDeleteLevel
    \/ TMSFinalDelete
    \/ TMSMetadata
    \/ TMSPreview
    \/ GoogleMapsResize
    \/ GoogleMapsStripeBase
    \/ GoogleMapsLevelsPreview
    \/ GoogleMapsMetadata
    \/ Validate

Spec == Init /\ [][Next]_vars

InitStripe ==
    /\ scheme = "Zoomify"
    /\ srcW = 1
    /\ srcH = 1
    /\ tileSize = 1
    /\ format = "JPEG"
    /\ genPreview = FALSE
    /\ ConvIdle
    /\ StripeInit

NextStripe ==
    \/ StripeMerge
    \/ StripeMergeWithCanvas
    \/ StripeShrink
    \/ StripeShrinkWithCanvas

SpecStripe == InitStripe /\ [][NextStripe]_vars

\* Zoomify conversions of sources large enough to fill more than one TileGroup
GroupDims == (MaxGroupDim - 1)..MaxGroupDim

InitGroups ==
    /\ scheme = "Zoomify"
    /\ srcW \in GroupDims
    /\ srcH \in GroupDims
    /\ tileSize = 1
    /\ format = "JPEG"
    /\ genPreview \in BOOLEAN
    /\ ConvIdle
    /\ StripeIdle

NextGroups ==
    \/ ConvertInternal
    \/ ZoomifyStripeBase
    \/ ZoomifyTileBase
    \/ ZoomifyNextLevel
    \/ ZoomifyMergeTile
    \/ ZoomifyDeleteLevel
    \/ ZoomifyFinalDelete
    \/ ZoomifyMetadata
    \/ ZoomifyPreview

SpecGroups == InitGroups /\ [][NextGroups]_vars

\* Google Maps and TMS conversions of sources of realistic sizes
ScenarioDims == {1, 127, 128, 300, 384, 400, 600}

ScenarioTileSizes == {128, 256, 512}

InitScenarios ==
    /\ \/ /\ scheme = "GoogleMaps"
          /\ srcW \in ScenarioDims
          /\ srcH \in ScenarioDims
          /\ tileSize \in ScenarioTileSizes
       \/ /\ scheme = "TMS"
          /\ srcW = 1025
          /\ srcH = 1025
          /\ tileSize = 256
    /\ format \in Formats
    /\ genPreview \in BOOLEAN
    /\ ConvIdle
    /\ StripeIdle

NextScenarios ==
    \/ ConvertTo
    \/ ConvertInternal
    \/ TMSStripeBase
    \/ TMSTileBase
    \/ TMSNextLevel
    \/ TMSMergeTile
    \/ TMSDeleteLevel
    \/ TMSFinalDelete
    \/ TMSMetadata
    \/ TMSPreview
    \/ GoogleMapsResize
    \/ GoogleMapsStripeBase
    \/ GoogleMapsLevelsPreview
    \/ GoogleMapsMetadata

SpecScenarios == InitScenarios /\ [][NextScenarios]_vars

(***************************************************************************)
(* Properties                                                              *)
(***************************************************************************)
\* the number of zoom levels and of tiles stated for a W x H source and tile size S
StatedZoomLevels(W, H, S) == CeilLog2(CeilDiv(Max(W, H), S)) + 1

StatedTiles(W, H, S) ==
    LET RECURSIVE Sum(_)
        Sum(z) == IF z < 0 THEN 0 ELSE Sum(z - 1) + CeilDiv(W, (2^z) * S) * CeilDiv(H, (2^z) * S)
    IN  Sum(StatedZoomLevels(W, H, S) - 1)

\* the side of the squared Google Maps canvas: S * 2^k holding the source
StatedSide(W, H, S) == S * 2^CeilLog2(CeilDiv(Max(W, H), S))

\* C1: a successful convert_to leaves exactly the stated number of tile files
\* in the tileset: the sum over the zoom levels of x_tiles(z) * y_tiles(z),
\* computed from the source dimensions (for Google Maps from the squared canvas).
C1_TileCount ==
    (Converted /\ entry = "convert_to") =>
        Cardinality(tiles) = IF scheme = "GoogleMaps"
                             THEN StatedTiles(StatedSide(srcW, srcH, tileSize), StatedSide(srcW, srcH, tileSize), tileSize)
                             ELSE StatedTiles(srcW, srcH, tileSize)

\* C2: ZoomifyValidator.validate on the directory a successful
\* ZoomifyTiler.convert_to produced returns Ok.
C2_ZoomifyRoundTrip ==
    (scheme = "Zoomify" /\ entry = "convert_to" /\ Converted /\ vres # NoResult) => vres = OkResult

\* C3: GoogleMapsValidator.validate on the directory a successful
\* GoogleMapsTiler.convert_to produced returns Ok, and the file name the
\* validator looks up for (z, x, y) is the name the tiler gives that tile.
C3_GoogleMapsRoundTrip ==
    (scheme = "GoogleMaps" /\ entry = "convert_to" /\ Converted /\ vres # NoResult) =>
        /\ vres = OkResult
        /\ \A z \in 0..MaxDim, x \in 0..MaxDim, y \in 0..MaxDim :
             GoogleMapsValidatorTileName(z, x, y, extension(format)) = GoogleMapsTileName(z, x, y, extension(format))

C5_InfoHasSourceDimensions ==
    (entry = "convert_to" /\ Converted) => (info.width = srcW /\ info.height = srcH)

\* C6: a TileSetInfo with width >= 1, height >= 1 and tile size >= 1 has
\* zoom_levels() >= 1.
C6_ZoomLevelsPositive ==
    (info.width >= 1 /\ info.height >= 1 /\ info.tile_width >= 1) => zoom_levels(info) >= 1

\* a TileSetInfo of a source that fits one tile exactly: the least zoom_levels
C6_Witness ==
    /\ info.width >= 1
    /\ info.height >= 1
    /\ info.tile_width = Max(info.width, info.height)
    /\ zoom_levels(info) = 1

\* C7: for a source smaller than the tile size in both dimensions, a
\* conversion by any of the three tilers ends with one zoom level and one tile.
C7_SmallSourceOneTile ==
    (Converted /\ srcW < tileSize /\ srcH < tileSize) =>
        (zoom_levels(info) = 1 /\ Cardinality(tiles) = 1)

\* the Stripe operation invoked is a merge (with or without canvas)
IsMerge == sCall.op \in {"merge", "merge_with_canvas"}

IsShrink == sCall.op \in {"shrink", "shrink_with_canvas"}

\* the invocation supplies a canvas
HasCanvas == sCall.x_extent > -1 /\ sCall.y_extent > -1

\* C8: a merge (with or without canvas) of two stripes of different
\* orientations returns an InvalidInput error, invokes no image-processor
\* operation and produces no stripe.
C8_MergeOrientationMismatch ==
    (IsMerge /\ sSelf.orientation # sOther.orientation) =>
        /\ sResult.kind = "Err"
        /\ sResult.err = "InvalidInput"
        /\ sResult.calls = <<>>
        /\ "stripe" \notin DOMAIN sResult

C8_Witness ==
    /\ sCall.op = "merge_with_canvas"
    /\ HasCanvas
    /\ sSelf.orientation # sOther.orientation
    /\ sResult.kind = "Err"

C10_CanvasDimensions ==
    (sCall # NoCall /\ HasCanvas /\ sResult.kind = "Ok") =>
        /\ sResult.stripe.width = sCall.x_extent
        /\ sResult.stripe.height = sCall.y_extent
        /\ sResult.stripe.orientation = sSelf.orientation

\* the Zoomify tiles of all levels coarser than the level named z (z = 0 is
\* the coarsest), for a pyramid of the given TileSetInfo
CoarserTiles(i, z) == TilesUpTo(i, zoom_levels(i) - 1) - TilesUpTo(i, zoom_levels(i) - 1 - z)

\* the stated index of tile (z, col, row)
StatedIndex(i, z, col, row) == CoarserTiles(i, z) + row * number_of_x_tiles(i, zoom_levels(i) - 1 - z) + col

\* the tile files of a whole pyramid, each in the TileGroup of its stated index
StatedZoomifyTiles(i) ==
    UNION {{ZoomifyTile(StatedIndex(i, z, col, row) \div 256, z, col, row) :
              col \in 0..(number_of_x_tiles(i, zoom_levels(i) - 1 - z) - 1),
              row \in 0..(number_of_y_tiles(i, zoom_levels(i) - 1 - z) - 1)} :
           z \in 0..(zoom_levels(i) - 1)}

\* C11: in a Zoomify conversion every tile written lies in TileGroup
\* floor(idx / 256) of its stated index (tiles of the coarser levels, then
\* row-major); the running start index never goes negative; after a successful
\* conversion it is 0, the tiles are exactly those of the indices
\* 0 .. total_tiles - 1, one each, and no TileGroup holds more than 256 tiles.
C11_TileGroupAssignment ==
    (scheme = "Zoomify" /\ pc # "idle") =>
        /\ tiles \subseteq StatedZoomifyTiles(info)
        /\ startIdx >= 0
        /\ Converted =>
             /\ startIdx = 0
             /\ tiles = StatedZoomifyTiles(info)
             /\ Cardinality(tiles) = total_number_of_tiles(info)
             /\ \A g \in TileGroupsOf(tiles) : Cardinality(AllTiles(tiles, g)) <= 256

\* a finished conversion that filled TileGroup0 and went on into TileGroup1
C11_Witness ==
    /\ scheme = "Zoomify"
    /\ Converted
    /\ Cardinality(AllTiles(tiles, 0)) = 256
    /\ AllTiles(tiles, 1) # {}

\* the Google Maps resize step has issued its request to the processor
Resized == scheme = "GoogleMaps" /\ baseImage # <<>>

\* the side the resize step chose: the requested size of the source's larger dimension
ChosenSide == IF Max(srcW, srcH) = srcH THEN baseImage[2] ELSE baseImage[1]

\* the sides S * 2^k that can be closest to a dimension m
CandidateSides(S, m) == {S * 2^k : k \in 0..(CeilLog2(m) + 1)}

\* C12: the side the Google Maps resize step chooses is S * 2^k for some
\* k >= 0 and is, among these values, closest to max(W, H), the higher one on
\* a tie.
C12_ClosestSide ==
    Resized =>
        /\ ChosenSide \in CandidateSides(tileSize, Max(srcW, srcH))
        /\ \A c \in CandidateSides(tileSize, Max(srcW, srcH)) :
             \/ Abs(ChosenSide - Max(srcW, srcH)) < Abs(c - Max(srcW, srcH))
             \/ Abs(ChosenSide - Max(srcW, srcH)) = Abs(c - Max(srcW, srcH)) /\ ChosenSide >= c

\* C13: the Google Maps resize step asks the processor for a square:
\* new_width = new_height = the chosen side.
C13_SquareRequest ==
    Resized => (baseImage[1] = ChosenSide /\ baseImage[2] = ChosenSide)

\* C14: a 600x400 source at tile size 256 is squared by the Google Maps tiler
\* to side 1024, giving 3 zoom levels and 21 tiles.
C14_Scenario600x400 ==
    (scheme = "GoogleMaps" /\ srcW = 600 /\ srcH = 400 /\ tileSize = 256 /\ entry = "convert_internal" /\ Converted) =>
        /\ ChosenSide = 1024
        /\ info.width = 1024
        /\ info.height = 1024
        /\ zoom_levels(info) = 3
        /\ Cardinality(tiles) = 21

\* a TMS conversion of the 1025x1025 source at tile size 256 has returned Ok
TMS1025 == scheme = "TMS" /\ srcW = 1025 /\ srcH = 1025 /\ tileSize = 256 /\ entry = "convert_internal" /\ Converted

\* the TileSet entries <<order, units-per-pixel>> of tilemapresource.xml
TileSets == JsonField(meta, "tilesets")

TMSStriped == scheme = "TMS" /\ pc = "t_base"

\* C16: the TMS padded canvas height h' = h + T - (h mod T) is a multiple of
\* T with h < h' <= h + T; when h is a multiple of T a whole extra tile row
\* is added: h' / T = h / T + 1.
C16_PaddedCanvasHeight ==
    TMSStriped =>
        /\ TMSCanvasHeight(info) % info.tile_height = 0
        /\ info.height < TMSCanvasHeight(info)
        /\ TMSCanvasHeight(info) <= info.height + info.tile_height
        /\ (info.height % info.tile_height = 0) =>
               TMSCanvasHeight(info) \div info.tile_height = info.height \div info.tile_height + 1

C16_Witness ==
    /\ TMSStriped
    /\ info.height % info.tile_height = 0
    /\ TMSCanvasHeight(info) = info.height + info.tile_height

\* the tiles of a stripe: n = stripe.height / tile_height
TilesOf(stripe) == stripe.height \div info.tile_height

\* the rows of the tile files in column col of the base level
BaseRows(col) == {f.name[1] : f \in {g \in tiles : g.dir = <<zoom_levels(info) - 1, col>>}}

\* C17: in TMS tiling of a stripe of n tiles, tmp-k is renamed to row
\* n - 1 - k: a bijection of 0 .. n-1 onto itself that gives the bottom-most
\* tile row 0; no two tiles of a column get the same name, and no target name
\* is the name of a tmp file still to be renamed.
C17_RowInversion ==
    TMSStriped =>
        \A c \in 1..Len(levelBeneath) :
            LET stripe == levelBeneath[c]
                n == TilesOf(stripe)
            IN  /\ \A k \in 0..(n - 1) : tms_row(stripe, info, k) = n - 1 - k
                /\ {tms_row(stripe, info, k) : k \in 0..(n - 1)} = 0..(n - 1)
                /\ \A k \in 0..(n - 1), j \in 0..(n - 1) : k # j => tms_row(stripe, info, k) # tms_row(stripe, info, j)
                /\ tms_row(stripe, info, n - 1) = 0
                /\ \A k \in 0..(n - 1), j \in 0..(n - 1) :
                     TMSTile(0, 0, tms_row(stripe, info, k), extension(info.format)).name # TMSTmpName(j, extension(info.format))
                /\ (c - 1 < idx) => BaseRows(c - 1) = 0..(n - 1)

\* a column of several tiles has been tiled
C17_Witness ==
    /\ TMSStriped
    /\ idx >= 1
    /\ TilesOf(levelBeneath[1]) >= 2
    /\ BaseRows(0) = 0..(TilesOf(levelBeneath[1]) - 1)

\* C18: for a stripe1 of height n * T with n >= 1, the height of the TMS
\* merge / shrink policy is ceil(n / 2) * T, a positive multiple of T.
C18_MergeHeight ==
    (scheme = "TMS" /\ pc = "t_level") =>
        \A j \in 1..Len(thisLevel) :
            LET stripe1 == PairOf(levelBeneath, j - 1)[1]
                n == stripe1.height \div info.tile_height
            IN  (stripe1.height = n * info.tile_height /\ n >= 1) =>
                    /\ thisLevel[j].height = CeilDiv(n, 2) * info.tile_height
                    /\ thisLevel[j].height >= info.tile_height

\* the stripes the running conversion still has to read or to delete
PendingStripes ==
    IF pc \in {"z_base", "t_base", "z_next", "t_next", "z_final_delete", "t_final_delete"}
    THEN StripeFilesOf(levelBeneath)
    ELSE IF pc \in {"z_level", "t_level", "g_levels", "g_meta"}
         THEN StripeFilesOf(levelBeneath) \cup StripeFilesOf(thisLevel)
         ELSE {}

\* the number of stripes level l of a conversion creates
StripesOfLevel(l) ==
    CASE scheme = "Zoomify" -> number_of_y_tiles(info, l)
      [] scheme = "TMS" -> number_of_x_tiles(info, l)
      [] OTHER -> 0

\* the stripe files a whole conversion creates
CreatedStripes == UNION {{<<"stripe", l, j>> : j \in 0..(StripesOfLevel(l) - 1)} : l \in 0..(zoom_levels(info) - 1)}

\* C19: in every conversion each intermediate stripe is deleted exactly once
\* and only after the crops, merges and shrinks that read it: a stripe still
\* to be read or deleted exists and was not deleted before, and when the
\* conversion returns Ok every stripe it created has been deleted and none
\* remains.
C19_StripesDeletedOnce ==
    /\ PendingStripes \subseteq stripeFiles
    /\ PendingStripes \cap deleted = {}
    /\ Converted => (stripeFiles = {} /\ deleted = CreatedStripes)

\* a conversion of several levels has returned Ok with its stripes deleted
C19_Witness ==
    /\ Converted
    /\ entry = "convert_internal"
    /\ zoom_levels(info) >= 2
    /\ Cardinality(deleted) >= 3
    /\ stripeFiles = {}

\* the conversion is about to delete the stripes of a level
AtDelete ==
    \/ pc \in {"z_final_delete", "t_final_delete"}
    \/ pc \in {"z_level", "t_level"} /\ idx = Passes(levelBeneath)

\* C20: a failure to delete an intermediate stripe is not fatal: from the
\* deletion of a level's stripes the conversion never goes to a failed return.
C20_DeleteFailureNotFatal == [][AtDelete => pc' # "failed"]_vars

\* C21: when the command of an image-processor operation (resize, crop) exits
\* non-zero, the operation returns an error and the tiler aborts at that step:
\* once a command has exited non-zero the conversion is at a failed return.
C21_NonZeroExitAborts == exitFailed => (pc = "failed" /\ result = "Err")

\* C22: ZoomifyValidator.validate returns Ok if and only if every expected
\* tile is present in its predicted TileGroup directory, whatever else the
\* directory holds.
C22_OkIffAllTilesPresent ==
    (scheme = "Zoomify" /\ vres # NoResult /\ rootExists /\ meta # <<>>) =>
        (vres = OkResult <=> MissingTiles(parse_image_properties(meta), vdir) = {})

\* exactly one tile file was removed from the complete tileset a conversion
\* left, and nothing was added
OneTileRemoved(t) == Converted /\ t \in tiles /\ vdir = tiles \ {t}

\* C23: when exactly one expected tile file is removed from an otherwise
\* complete Zoomify tileset, validate fails with ValidationFailed and the
\* message "Missing tile: <name of the removed tile>".
C23_MissingTileNamed ==
    \A t \in tiles :
        (scheme = "Zoomify" /\ vres # NoResult /\ OneTileRemoved(t)) =>
            vres = ValidationFailed(<<"Missing tile", t.name>>)

\* the Google Maps conversion has written the tiles of all zoom levels and,
\* the preview being enabled, is about to write preview.html
AtPreview == scheme = "GoogleMaps" /\ pc = "g_levels" /\ genPreview /\ ~rerun

\* C24: in a Google Maps conversion gmap_tileset.info is written after the
\* tiles and before the preview HTML: when the preview has been written, or
\* writing it has failed, gmap_tileset.info is present on disk.
C24_InfoBeforePreview == [][AtPreview => meta' # <<>>]_vars

\* a Zoomify conversion has written ImageProperties.xml from its TileSetInfo
DescriptorWritten == scheme = "Zoomify" /\ info # NoInfo /\ meta # <<>>

\* C25: the geometry the Zoomify validator derives from ImageProperties.xml
\* equals the generator's TileSetInfo geometry: the same zoom_levels, the
\* same x_tiles and y_tiles at every level, and per-level products that sum
\* to the NUMTILES the generator wrote.
C25_ValidatorGeometry ==
    DescriptorWritten =>
        LET v == parse_image_properties(meta)
        IN  /\ v.zoom_levels = zoom_levels(info)
            /\ \A k \in 0..(zoom_levels(info) - 1) :
                 /\ v.x_tiles[k] = number_of_x_tiles(info, k)
                 /\ v.y_tiles[k] = number_of_y_tiles(info, k)
            /\ TilesBefore(v, -1) = extract_value(meta, "numtiles")
            /\ TilesBefore(v, -1) = total_number_of_tiles(info)

\* the descriptor of a pyramid of three levels with an odd number of base
\* tiles across (the halving takes a ceiling) and a different number down
C25_Witness ==
    /\ DescriptorWritten
    /\ zoom_levels(info) >= 3
    /\ number_of_x_tiles(info, 0) % 2 = 1
    /\ number_of_x_tiles(info, 0) # number_of_y_tiles(info, 0)

\* the processor calls that wrote file f, and the reads of file f by calls
CallsTo(f) == {c \in 1..Len(procCalls) : procCalls[c].target = f}

ReadsOf(f) ==
    {x \in (1..Len(procCalls)) \X (1..2) :
        x[2] <= Len(procCalls[x[1]].srcs) /\ procCalls[x[1]].srcs[x[2]] = f}

\* the level being built is complete
LevelBuilt == pc = "z_level" /\ idx = Passes(levelBeneath)

\* C26: in a Zoomify conversion level L is built from level L-1 by merging
\* the stripes (2j, 2j+1) and shrinking a trailing unpaired stripe; every
\* stripe of level L-1 is read by exactly one merge or shrink, level L has
\* ceil(n/2) stripes, and every level L has y_tiles(L) stripes.
C26_StripePairing ==
    (scheme = "Zoomify" /\ entry = "convert_internal") =>
        /\ pc = "z_base" => Len(levelBeneath) = number_of_y_tiles(info, 0)
        /\ pc = "z_next" => Len(levelBeneath) = number_of_y_tiles(info, lvl)
        /\ pc = "z_level" =>
             /\ Len(levelBeneath) = number_of_y_tiles(info, lvl - 1)
             /\ \A j \in 1..Len(thisLevel) :
                  /\ Cardinality(CallsTo(thisLevel[j].file)) = 1
                  /\ \A c \in CallsTo(thisLevel[j].file) :
                       IF 2 * j <= Len(levelBeneath)
                       THEN /\ procCalls[c].op = "montage_raw"
                            /\ procCalls[c].srcs = <<levelBeneath[2 * j - 1].file, levelBeneath[2 * j].file>>
                       ELSE /\ procCalls[c].op = "convert"
                            /\ procCalls[c].srcs = <<levelBeneath[2 * j - 1].file>>
        /\ LevelBuilt =>
             /\ Len(thisLevel) = CeilDiv(Len(levelBeneath), 2)
             /\ Len(thisLevel) = number_of_y_tiles(info, lvl)
             /\ \A k \in 1..Len(levelBeneath) : Cardinality(ReadsOf(levelBeneath[k].file)) = 1

\* a level of two stripes was built from three: one merge and one shrink
C26_Witness ==
    /\ scheme = "Zoomify"
    /\ LevelBuilt
    /\ Len(levelBeneath) = 3
    /\ Len(thisLevel) = 2
    /\ ~rerun

\* the stripes the level loop holds when it processes zoom z, starting from
\* `stripes` at zoom `top`
RECURSIVE GoogleMapsStripesAt(_, _, _)
GoogleMapsStripesAt(stripes, top, z) ==
    IF z >= top THEN stripes
    ELSE GoogleMapsStripesAt(create_stripes_for_next_zoom_level(stripes, zoom_levels(info) - top, 0), top - 1, z)

\* the number of tiles the level loop cuts a stripe into
GoogleMapsTilesOf(stripe) ==
    IF stripe.orientation = "Horizontal"
    THEN stripe.width \div info.tile_width
    ELSE stripe.height \div info.tile_height

C28_MergedStripeShape ==
    (scheme = "Zoomify" /\ pc = "z_level") =>
        \A j \in 1..Len(thisLevel) :
            (/\ 2 * j <= Len(levelBeneath)
             /\ levelBeneath[2 * j - 1].height = info.tile_height
             /\ levelBeneath[2 * j].height = info.tile_height) =>
                /\ thisLevel[j].orientation = "Horizontal"
                /\ thisLevel[j].height = info.tile_height
                /\ thisLevel[j].width = info.width \div (2^lvl)

\* the number of tiles a crop cuts a stripe of the recorded width into
CroppedTiles(stripe) == CeilDiv(stripe.width, info.tile_width)

\* C29: in a Zoomify conversion the recorded width of a stripe of level L is
\* W halved L times by integer division, and cut into S-wide tiles it yields
\* exactly x_tiles(L) tiles, the number of tmp files the tiler renames.
C29_StripeWidthMatchesXTiles ==
    (scheme = "Zoomify" /\ entry = "convert_internal") =>
        /\ pc = "z_base" =>
             \A k \in 1..Len(levelBeneath) : CroppedTiles(levelBeneath[k]) = number_of_x_tiles(info, 0)
        /\ pc = "z_level" =>
             \A j \in 1..Len(thisLevel) :
                 /\ thisLevel[j].width = info.width \div (2^lvl)
                 /\ CroppedTiles(thisLevel[j]) = number_of_x_tiles(info, lvl)

\* C30: whenever Stripe merge_with_canvas or shrink_with_canvas returns
\* Ok(stripe), the image processor was invoked exactly once, to write the
\* returned stripe's target file, whatever the arguments were.
C30_OkImpliesOneCall ==
    (sCall.op \in {"merge_with_canvas", "shrink_with_canvas"} /\ sResult.kind = "Ok") =>
        /\ Len(sResult.calls) = 1
        /\ sResult.calls[1].target = sResult.stripe.file

=============================================================================
